---------------------------- MODULE Spec2Model ----------------------------
(***************************************************************************)
(* Model of src/scraper.py: the AlloCineScraper class.                     *)
(*                                                                         *)
(* Representation of Python values                                         *)
(*   - a str is a sequence of tokens (one-character strings, or whole      *)
(*     words where only word identity matters);                            *)
(*   - a value stored in a dataframe cell is None (the missing marker) or  *)
(*     Str(s); the empty string Str(<<>>) differs from None;               *)
(*   - the result of bs4's find() is a sequence of length 0 (Python None)  *)
(*     or 1 (the tag found);                                               *)
(*   - a call of a field rule either raises or returns a value.            *)
(***************************************************************************)
EXTENDS Integers, Sequences, FiniteSets, TLC

VARIABLES dataset, files, pc, self, args, number, response, fetched,
          error, instances, detected, inherited, writes

vars == <<dataset, files, pc, self, args, number, response, fetched,
          error, instances, detected, inherited, writes>>

---------------------------------------------------------------------------
(* Bounds of the model                                                     *)

MaxPages == 3
MaxInstances == 2
MaxCards == 2
MaxRows == 3
MaxEntries == 3
MaxRatingItems == 2

---------------------------------------------------------------------------
(* Python values                                                           *)

None == <<>>

Str(s) == <<s>>

Raise == [raised |-> TRUE, value |-> None]

Return(v) == [raised |-> FALSE, value |-> v]

---------------------------------------------------------------------------
(* str methods used by the field rules                                     *)

IsSpace(c) == c \in {" ", "\n", "\t"}

IsDigit(c) == c \in {"0", "1", "2", "3", "4", "5", "6", "7", "8", "9"}

RECURSIVE LStrip(_)
LStrip(s) ==
    IF s = <<>> THEN <<>>
    ELSE IF IsSpace(Head(s)) THEN LStrip(Tail(s))
    ELSE s

RECURSIVE RStrip(_)
RStrip(s) ==
    IF s = <<>> THEN <<>>
    ELSE IF IsSpace(s[Len(s)]) THEN RStrip(SubSeq(s, 1, Len(s) - 1))
    ELSE s

Strip(s) == RStrip(LStrip(s))

\* re.sub(r"\D", "", s)
SubNonDigits(s) == SelectSeq(s, IsDigit)

\* ", ".join(list)
Join(list) ==
    IF list = <<>> THEN <<>>
    ELSE LET F[i \in 1..Len(list)] ==
                 IF i = 1 THEN list[1]
                 ELSE F[i - 1] \o <<",", " ">> \o list[i]
         IN  F[Len(list)]

\* label in text
Contains(text, label) == \E i \in 1..Len(text) : text[i] = label

---------------------------------------------------------------------------
(* The field rules.  A card (the bs4 tag of one <li class="mdl">) is the   *)
(* record of the sub-fragments the rules' selectors locate in it:          *)
(*   content_title       find("div", content-title): <<>> or               *)
(*                       <<[a |-> <<>> or <<[href, text]>>, tail]>>        *)
(*   date                find("span", date): <<>> or <<text>>              *)
(*   spacer              find("span", spacer): <<>> or <<next_sibling>>    *)
(*   meta_body_info      <<>> or <<list of the genre spans' texts>>        *)
(*   meta_body_direction <<>> or <<list of the person links' texts>>       *)
(*   meta_body_actor     <<>> or <<list of the a/span texts>>              *)
(*   rating_items        find_all("div", rating-item): list of             *)
(*                       [label, note] (note: <<>> or <<text>>)            *)
(*   synopsis            find("div", synopsis): <<>> or <<text>>           *)

\* tag.text of the content-title div: the text of its link, then the rest
ContentTitleText(div) ==
    (IF div.a = <<>> THEN <<>> ELSE div.a[1].text) \o div.tail

\* tag.text of a rating-item div: its label, then its star note
RatingText(ratings) ==
    ratings.label \o (IF ratings.note = <<>> THEN <<>> ELSE ratings.note[1])

get_movie_id(movie) ==
    LET div == movie.content_title IN
    IF div = <<>> THEN Raise                        \* None.a
    ELSE IF div[1].a = <<>> THEN Raise              \* None["href"]
    ELSE IF div[1].a[1].href = <<>> THEN Raise      \* KeyError
    ELSE Return(Str(SubNonDigits(div[1].a[1].href[1])))

get_movie_title(movie) ==
    LET div == movie.content_title IN
    IF div = <<>> THEN Raise
    ELSE Return(Str(Strip(ContentTitleText(div[1]))))

get_movie_release_date(movie) ==
    IF movie.date = <<>> THEN Raise
    ELSE Return(Str(Strip(movie.date[1])))

get_movie_duration(movie) ==
    IF movie.spacer = <<>> THEN Raise               \* None.next_sibling
    ELSE IF movie.spacer[1].kind # "text" THEN Raise \* None.strip, Tag.strip()
    ELSE Return(Str(Strip(movie.spacer[1].text)))

get_movie_genres(movie) ==
    IF movie.meta_body_info = <<>> THEN Raise
    ELSE Return(Str(Join(movie.meta_body_info[1])))

\* the directors' rule selecting the actors' block
get_movie_directors_actor_block(movie) ==
    IF movie.meta_body_actor = <<>> THEN Raise
    ELSE Return(Str(Join(movie.meta_body_actor[1])))

get_movie_directors(movie) ==
    IF movie.meta_body_direction = <<>> THEN Raise
    ELSE Return(Str(Join(movie.meta_body_direction[1])))

\* list[0:]
FromFirst(list) == list

\* list[1:]
FromSecond(list) == SubSeq(list, 2, Len(list))

get_movie_actors(movie) ==
    IF movie.meta_body_actor = <<>> THEN Raise
    ELSE Return(Str(Join(FromSecond(movie.meta_body_actor[1]))))

\* for ratings in movie_ratings: if label in ratings.text: return ...note.text
RECURSIVE RatingOf(_, _)
RatingOf(movie_ratings, label) ==
    IF movie_ratings = <<>> THEN Return(None)
    ELSE LET ratings == Head(movie_ratings) IN
         IF Contains(RatingText(ratings), label)
         THEN IF ratings.note = <<>> THEN Raise     \* None.text
              ELSE Return(Str(ratings.note[1]))
         ELSE RatingOf(Tail(movie_ratings), label)

\* the press rule looking for the spectators' label
get_movie_press_rating_swapped(movie) ==
    RatingOf(movie.rating_items, "Spectateurs")

get_movie_press_rating(movie) == RatingOf(movie.rating_items, "Presse")

get_movie_spec_rating(movie) == RatingOf(movie.rating_items, "Spectateurs")

get_movie_summary(movie) ==
    IF movie.synopsis = <<>> THEN Raise
    ELSE Return(Str(Strip(movie.synopsis[1])))

movie_infos ==
    << "id", "title", "release_date", "duration", "genres", "directors",
       "actors", "press_rating", "spec_rating", "summary" >>

\* getattr(self, "_get_movie_" + info)(movie)
GetMovie(info, movie) ==
    CASE info = "id"           -> get_movie_id(movie)
      [] info = "title"        -> get_movie_title(movie)
      [] info = "release_date" -> get_movie_release_date(movie)
      [] info = "duration"     -> get_movie_duration(movie)
      [] info = "genres"       -> get_movie_genres(movie)
      [] info = "directors"    -> get_movie_directors(movie)
      [] info = "actors"       -> get_movie_actors(movie)
      [] info = "press_rating" -> get_movie_press_rating(movie)
      [] info = "spec_rating"  -> get_movie_spec_rating(movie)
      [] info = "summary"      -> get_movie_summary(movie)

\* the inner loop with the first failing rule ending the card
RECURSIVE ScrapeInfosAbort(_, _, _)
ScrapeInfosAbort(movie, i, movie_datas) ==
    IF i > Len(movie_infos) THEN movie_datas
    ELSE LET r == GetMovie(movie_infos[i], movie) IN
         IF r.raised THEN movie_datas
         ELSE ScrapeInfosAbort(movie, i + 1, Append(movie_datas, r.value))

\* for info in self.movie_infos: try ... except: scraped_info = None
RECURSIVE ScrapeInfos(_, _, _)
ScrapeInfos(movie, i, movie_datas) ==
    IF i > Len(movie_infos) THEN movie_datas
    ELSE LET r == GetMovie(movie_infos[i], movie)
             scraped_info == IF r.raised THEN None ELSE r.value
         IN  ScrapeInfos(movie, i + 1, Append(movie_datas, scraped_info))

MovieDatas(movie) == ScrapeInfos(movie, 1, <<>>)

---------------------------------------------------------------------------
(* The dataframe and the CSV file                                          *)

\* df.loc[label] = row, on a frame whose index is 0 .. len(df)-1: an
\* existing label is overwritten, a new one is appended at the end
LocSet(df, label, row) ==
    IF label \in 0..(Len(df) - 1)
    THEN [df EXCEPT ![label + 1] = row]
    ELSE Append(df, row)

\* for movie in cards: ... self.dataset.loc[len(self.dataset) - 1] = ...
RECURSIVE AddMoviesOverLast(_, _)
AddMoviesOverLast(df, cards) ==
    IF cards = <<>> THEN df
    ELSE AddMoviesOverLast(LocSet(df, Len(df) - 1, MovieDatas(Head(cards))),
                           Tail(cards))

\* for movie in cards: ... self.dataset.loc[len(self.dataset)] = movie_datas
RECURSIVE AddMovies(_, _)
AddMovies(df, cards) ==
    IF cards = <<>> THEN df
    ELSE AddMovies(LocSet(df, Len(df), MovieDatas(Head(cards))), Tail(cards))

\* csv.QUOTE_MINIMAL: a field with the delimiter, the quote character or a
\* line break is quoted
NeedsQuote(s) == \E i \in 1..Len(s) : s[i] \in {",", "\"", "\n", "\r"}

\* doublequote=True: a quote character inside a quoted field is doubled
RECURSIVE DoubleQuotes(_)
DoubleQuotes(s) ==
    IF s = <<>> THEN <<>>
    ELSE (IF Head(s) = "\"" THEN <<"\"", "\"">> ELSE <<Head(s)>>)
             \o DoubleQuotes(Tail(s))

\* one field of a CSV line: None is written as na_rep, the empty field
CsvField(v) ==
    IF v = None THEN <<>>
    ELSE IF NeedsQuote(v[1]) THEN <<"\"">> \o DoubleQuotes(v[1]) \o <<"\"">>
    ELSE v[1]

\* one CSV line of a row
CsvLine(row) == [k \in 1..Len(row) |-> CsvField(row[k])]

\* df.to_csv(path, index=False): the header line, then one line per row
to_csv(df) == <<movie_infos>> \o [i \in 1..Len(df) |-> CsvLine(df[i])]

---------------------------------------------------------------------------
(* Constructor arguments                                                   *)

IntArg(n) == [type |-> "int", val |-> n]

StrArg(s) == [type |-> "str", val |-> s]

\* isinstance(x, int): bool is a subclass of int
IsInt(x) == x.type \in {"int", "bool"}

IsStr(x) == x.type = "str"

\* s[-4:]
Last4(s) == SubSeq(s, IF Len(s) > 4 THEN Len(s) - 3 ELSE 1, Len(s))

MinPages == 2

MinPause == 2

BadPagesFromZero(x) == ~IsInt(x) \/ x.val < 1

BadPages(x) == ~IsInt(x) \/ x.val < MinPages

BadName(x) == ~IsStr(x) \/ Last4(x.val) # <<".", "c", "s", "v">>

BadPause(x) == ~IsInt(x) \/ x.val < MinPause

PagesArgs ==
    {IntArg(n) : n \in 1..MaxPages}
        \cup {[type |-> "bool", val |-> 1], [type |-> "float", val |-> 2]}

NameArgs ==
    {StrArg(<<"a", ".", "c", "s", "v">>), StrArg(<<".", "c", "s", "v">>),
     StrArg(<<"c", "s", "v">>), [type |-> "NoneType", val |-> <<>>]}

PauseArgs ==
    {IntArg(1), IntArg(2), [type |-> "float", val |-> 10]}

FileNames == {x.val : x \in {y \in NameArgs : IsStr(y)}}

NoSelf == [number_of_pages |-> 0, dataset_name |-> <<>>, human_pause |-> 0]

NoArgs == [number_of_pages |-> IntArg(0), dataset_name |-> StrArg(<<>>),
           human_pause |-> IntArg(0)]

---------------------------------------------------------------------------
(* Pages the site may answer with                                          *)

FullCard ==
    [content_title |->
        <<[a |-> <<[href |-> << <<"/", "f", "=", "1", "2", ".", "h">> >>,
                    text |-> <<"\n", "T", "i">>]>>,
           tail |-> <<"\n">>]>>,
     date |-> << <<" ", "2", "0", "2", "0", " ">> >>,
     spacer |-> <<[kind |-> "text", text |-> <<"\n", "1", "h", "\n">>]>>,
     meta_body_info |-> << << <<"D", "r">>, <<"C", "o">> >> >>,
     meta_body_direction |-> << << <<"D", "1">> >> >>,
     meta_body_actor |-> << << <<"A", "v", "e", "c">>, <<"A">>, <<"B">> >> >>,
     rating_items |->
        <<[label |-> <<"Presse">>, note |-> << <<"3.5">> >>],
          [label |-> <<"Spectateurs">>, note |-> << <<"4.0">> >>]>>,
     synopsis |-> << <<"\n", "S", " ", "y", "\n">> >>]

BareCard ==
    [content_title |-> <<>>, date |-> <<>>, spacer |-> <<>>,
     meta_body_info |-> <<>>, meta_body_direction |-> <<>>,
     meta_body_actor |-> <<>>, rating_items |-> <<>>, synopsis |-> <<>>]

MinimalCard ==
    [BareCard EXCEPT !.content_title =
        <<[a |-> <<[href |-> << <<"/", "7", "8", "9">> >>,
                    text |-> <<"O">>]>>,
           tail |-> <<>>]>>]

SampleCards == {FullCard, BareCard}

SeqsUpTo(S, n) == UNION {[1..k -> S] : k \in 0..n}

Pages == SeqsUpTo(SampleCards, MaxCards)

---------------------------------------------------------------------------
(* The scraper                                                             *)

Init ==
    /\ dataset = <<>>
    /\ files = [n \in FileNames |-> <<>>]
    /\ pc = "none"
    /\ self = NoSelf
    /\ args = NoArgs
    /\ number = 0
    /\ response = <<>>
    /\ fetched = <<>>
    /\ error = "none"
    /\ instances = 0
    /\ detected = <<>>
    /\ inherited = <<>>
    /\ writes = 0

\* a constructor that gives every instance its own empty dataframe
AlloCineScraperOwnDataset(number_of_pages, dataset_name, human_pause) ==
    /\ pc \in {"none", "rejected", "done", "crashed"}
    /\ instances < MaxInstances
    /\ instances' = instances + 1
    /\ args' = [number_of_pages |-> number_of_pages,
                dataset_name |-> dataset_name, human_pause |-> human_pause]
    /\ IF BadPages(number_of_pages) \/ BadName(dataset_name)
          \/ BadPause(human_pause)
       THEN /\ pc' = "rejected"
            /\ error' = "config"
            /\ self' = NoSelf
       ELSE /\ pc' = "ready"
            /\ error' = "none"
            /\ self' = [number_of_pages |-> number_of_pages.val,
                        dataset_name |-> dataset_name.val,
                        human_pause |-> human_pause.val]
    /\ inherited' = dataset
    /\ dataset' = <<>>
    /\ detected' = <<>>
    /\ number' = 0
    /\ response' = <<>>
    /\ fetched' = <<>>
    /\ writes' = 0
    /\ UNCHANGED files

\* AlloCineScraper(number_of_pages, dataset_name, human_pause): __init__
AlloCineScraper(number_of_pages, dataset_name, human_pause) ==
    /\ pc \in {"none", "rejected", "done", "crashed"}
    /\ instances < MaxInstances
    /\ instances' = instances + 1
    /\ args' = [number_of_pages |-> number_of_pages,
                dataset_name |-> dataset_name, human_pause |-> human_pause]
    /\ IF BadPages(number_of_pages) \/ BadName(dataset_name)
          \/ BadPause(human_pause)
       THEN /\ pc' = "rejected"
            /\ error' = "config"
            /\ self' = NoSelf
       ELSE /\ pc' = "ready"
            /\ error' = "none"
            /\ self' = [number_of_pages |-> number_of_pages.val,
                        dataset_name |-> dataset_name.val,
                        human_pause |-> human_pause.val]
    /\ inherited' = dataset
    /\ number' = 0
    /\ response' = <<>>
    /\ fetched' = <<>>
    /\ writes' = 0
    /\ UNCHANGED <<dataset, files, detected>>

\* range(a, b)
Range(a, b) == [i \in 1..(b - a) |-> a + i - 1]

PageNumbersInclusive(n) == Range(1, n + 1)

\* range(1, self.number_of_pages); its i-th element is i
PageNumbers(n) == Range(1, n)

\* start_scraping_movies, up to the first iteration of the loop
start_scraping_movies ==
    /\ pc = "ready"
    /\ IF PageNumbers(self.number_of_pages) = <<>>
       THEN pc' = "done" /\ number' = number
       ELSE pc' = "fetch" /\ number' = PageNumbers(self.number_of_pages)[1]
    /\ UNCHANGED <<dataset, files, self, args, response, fetched, error,
                   instances, detected, inherited, writes>>

\* response = self._get_page(number)
get_page ==
    /\ pc = "fetch"
    /\ \E page \in Pages :
          /\ Len(dataset) + Len(page) <= MaxRows
          /\ response' = page
    /\ fetched' = Append(fetched, number)
    /\ pc' = "parse"
    /\ UNCHANGED <<dataset, files, self, args, number, error, instances,
                   detected, inherited, writes>>

\* a driver loop that catches the failed request and goes on
get_page_raises_caught ==
    /\ pc = "fetch"
    /\ fetched' = Append(fetched, number)
    /\ error' = "fetch"
    /\ pc' = "sleep"
    /\ UNCHANGED <<dataset, files, self, args, number, response, instances,
                   detected, inherited, writes>>

\* requests.get raises: nothing in start_scraping_movies catches it, and
\* the exception unwinds its frame and the local response
get_page_raises ==
    /\ pc = "fetch"
    /\ fetched' = Append(fetched, number)
    /\ error' = "fetch"
    /\ pc' = "crashed"
    /\ response' = <<>>
    /\ UNCHANGED <<dataset, files, self, args, number, instances, detected,
                   inherited, writes>>

\* _parse_list_page writing only the rows of the page it has just parsed
parse_list_page_delta ==
    /\ pc = "parse"
    /\ dataset' = AddMovies(dataset, response)
    /\ files' = [files EXCEPT ![self.dataset_name] =
                    to_csv(AddMovies(<<>>, response))]
    /\ detected' = detected \o response
    /\ writes' = writes + 1
    /\ pc' = "sleep"
    /\ UNCHANGED <<self, args, number, response, fetched, error, instances,
                   inherited>>

\* self._parse_list_page(response)
parse_list_page ==
    /\ pc = "parse"
    /\ dataset' = AddMovies(dataset, response)
    /\ files' = [files EXCEPT ![self.dataset_name] = to_csv(dataset')]
    /\ detected' = detected \o response
    /\ writes' = writes + 1
    /\ pc' = "sleep"
    /\ UNCHANGED <<self, args, number, response, fetched, error, instances,
                   inherited>>

\* BeautifulSoup(page.content, "html.parser") raises; the exception unwinds
\* the frame of start_scraping_movies and its local response
parse_list_page_raises ==
    /\ pc = "parse"
    /\ error' = "parse"
    /\ pc' = "crashed"
    /\ response' = <<>>
    /\ UNCHANGED <<dataset, files, self, args, number, fetched, instances,
                   detected, inherited, writes>>

\* the rows are added, then to_csv cannot open "files/" + dataset_name
to_csv_raises ==
    /\ pc = "parse"
    /\ dataset' = AddMovies(dataset, response)
    /\ detected' = detected \o response
    /\ error' = "save"
    /\ pc' = "crashed"
    /\ response' = <<>>
    /\ UNCHANGED <<files, self, args, number, fetched, instances, inherited,
                   writes>>

\* time.sleep(self.human_pause), then the next iteration or the end; the
\* response of the iteration is not used again
human_pause ==
    /\ pc = "sleep"
    /\ IF number < Len(PageNumbers(self.number_of_pages))
       THEN /\ number' = PageNumbers(self.number_of_pages)[number + 1]
            /\ pc' = "fetch"
       ELSE /\ number' = number
            /\ pc' = "done"
    /\ response' = <<>>
    /\ UNCHANGED <<dataset, files, self, args, fetched, error, instances,
                   detected, inherited, writes>>

Construct ==
    \E p \in PagesArgs, d \in NameArgs, t \in PauseArgs :
        AlloCineScraper(p, d, t)

Next ==
    \/ Construct
    \/ start_scraping_movies
    \/ get_page
    \/ get_page_raises
    \/ parse_list_page
    \/ parse_list_page_raises
    \/ to_csv_raises
    \/ human_pause

Spec == Init /\ [][Next]_vars

---------------------------------------------------------------------------
(* The extractor on its own: one scraper that has just fetched page 1 of   *)
(* 2, for every card of a larger family of cards.                          *)

HrefOptions ==
    {<<>>, << <<"/", "f", "=", "1", "2", ".", "h">> >>, << <<"/", "f">> >>}

LinkOptions ==
    {<<>>} \cup {<<[href |-> h, text |-> <<"\n", "T", "i">>]>> :
                    h \in HrefOptions}

TitleOptions ==
    {<<>>} \cup {<<[a |-> a, tail |-> t]>> :
                    a \in LinkOptions, t \in {<<>>, <<"X", "\n">>}}

DateOptions == {<<>>, FullCard.date}

SpacerOptions ==
    {<<>>, <<[kind |-> "none", text |-> <<>>]>>,
     <<[kind |-> "tag", text |-> <<>>]>>, FullCard.spacer}

ListOptions(names) ==
    {<<>>} \cup {<<l>> : l \in SeqsUpTo(names, MaxEntries)}

GenreNames == {<<"D", "r">>, <<"C", "o">>}

PersonNames == {<<"A", "v", "e", "c">>, <<"A">>, <<"B">>}

RatingBlocks ==
    [label : {<<"Presse">>, <<"Spectateurs">>, <<"Presse", "Spectateurs">>,
              <<"Note">>},
     note : {<<>>, << <<"3.5">> >>, << <<"4.0">> >>}]

RatingOptions == SeqsUpTo(RatingBlocks, MaxRatingItems)

SynopsisOptions == {<<>>, FullCard.synopsis}

\* every fragment either absent or as in FullCard
PresenceCards ==
    [content_title : {<<>>, FullCard.content_title},
     date : DateOptions,
     spacer : {<<>>, FullCard.spacer},
     meta_body_info : {<<>>, FullCard.meta_body_info},
     meta_body_direction : {<<>>, FullCard.meta_body_direction},
     meta_body_actor : {<<>>, FullCard.meta_body_actor},
     rating_items : {<<>>, FullCard.rating_items},
     synopsis : SynopsisOptions]

\* FullCard with one fragment taken from all its options
VariedCards ==
    {[FullCard EXCEPT !.content_title = x] : x \in TitleOptions}
        \cup {[FullCard EXCEPT !.spacer = x] : x \in SpacerOptions}
        \cup {[FullCard EXCEPT !.meta_body_info = x] :
                 x \in ListOptions(GenreNames)}
        \cup {[FullCard EXCEPT !.meta_body_direction = x] :
                 x \in ListOptions(GenreNames)}
        \cup {[FullCard EXCEPT !.meta_body_actor = x] :
                 x \in ListOptions(PersonNames)}
        \cup {[FullCard EXCEPT !.rating_items = x] : x \in RatingOptions}

RichCards == PresenceCards \cup VariedCards \cup {MinimalCard}

InitCard ==
    /\ dataset = <<>>
    /\ files = [n \in FileNames |-> <<>>]
    /\ pc = "parse"
    /\ self = [number_of_pages |-> 2,
               dataset_name |-> <<"a", ".", "c", "s", "v">>,
               human_pause |-> 2]
    /\ args = [number_of_pages |-> IntArg(2),
               dataset_name |-> StrArg(<<"a", ".", "c", "s", "v">>),
               human_pause |-> IntArg(2)]
    /\ number = 1
    /\ \E c \in RichCards :
          response \in {<<c>>, <<c, FullCard>>, <<BareCard, c>>}
    /\ fetched = <<1>>
    /\ error = "none"
    /\ instances = 1
    /\ detected = <<>>
    /\ inherited = <<>>
    /\ writes = 0

NextCard == parse_list_page \/ human_pause

SpecCard == InitCard /\ [][NextCard]_vars

---------------------------------------------------------------------------
(* Properties                                                              *)

Running == pc \in {"fetch", "parse", "sleep", "done", "crashed"}

IsPrefix(s, t) == Len(s) <= Len(t) /\ SubSeq(t, 1, Len(s)) = s

C2_RowPerCard ==
    /\ Len(dataset) = Len(detected)
    /\ \A i \in 1..Len(dataset) : dataset[i] = MovieDatas(detected[i])

C2_Witness ==
    /\ pc = "sleep"
    /\ number = 2
    /\ response = <<BareCard, FullCard>>
    /\ Len(dataset) = 3
    /\ \A k \in 1..10 : dataset[2][k] = None /\ dataset[3][k] # None

TenFields ==
    << "id", "title", "release_date", "duration", "genres", "directors",
       "actors", "press_rating", "spec_rating", "summary" >>

\* C3: a failing field rule puts the missing marker in that field only:
\* every row has the ten columns in the fixed order, column k holding the
\* missing marker if rule k raised and the rule's value otherwise, the
\* later cards of the page have their rows too, and the run has not failed.
C3_FieldFailureIsLocal ==
    pc \in {"sleep", "done"} =>
        /\ error = "none"
        /\ Len(dataset) = Len(detected)
        /\ \A i \in 1..Len(dataset) :
              /\ Len(dataset[i]) = 10
              /\ \A k \in 1..10 :
                    LET r == GetMovie(TenFields[k], detected[i]) IN
                    dataset[i][k] = IF r.raised THEN None ELSE r.value

C3_Witness ==
    /\ pc = "sleep"
    /\ Len(dataset) = 2
    /\ GetMovie("release_date", detected[1]).raised
    /\ dataset[1][3] = None
    /\ dataset[1][4] # None
    /\ dataset[1][10] # None
    /\ dataset[2] = MovieDatas(FullCard)

NotPresse(t) == t # "Presse"

NotSpectateurs(t) == t # "Spectateurs"

\* the card without the sub-fragment that the rule of a field reads
Removed(card, info) ==
    CASE info = "id" ->
            IF card.content_title = <<>> \/ card.content_title[1].a = <<>>
            THEN card
            ELSE [card EXCEPT !.content_title[1].a[1].href = <<>>]
      [] info = "title"        -> [card EXCEPT !.content_title = <<>>]
      [] info = "release_date" -> [card EXCEPT !.date = <<>>]
      [] info = "duration"     -> [card EXCEPT !.spacer = <<>>]
      [] info = "genres"       -> [card EXCEPT !.meta_body_info = <<>>]
      [] info = "directors"    -> [card EXCEPT !.meta_body_direction = <<>>]
      [] info = "actors"       -> [card EXCEPT !.meta_body_actor = <<>>]
      [] info = "press_rating" ->
            [card EXCEPT !.rating_items =
                [j \in 1..Len(card.rating_items) |->
                    [card.rating_items[j] EXCEPT
                        !.label = SelectSeq(@, NotPresse)]]]
      [] info = "spec_rating"  ->
            [card EXCEPT !.rating_items =
                [j \in 1..Len(card.rating_items) |->
                    [card.rating_items[j] EXCEPT
                        !.label = SelectSeq(@, NotSpectateurs)]]]
      [] info = "summary"      -> [card EXCEPT !.synopsis = <<>>]

C5_FileIsWholeDataset ==
    pc \in {"sleep", "done"} =>
        LET f == files[self.dataset_name] IN
        /\ Len(f) = Len(dataset) + 1
        /\ f[1] = TenFields
        /\ \A i \in 1..Len(dataset) : f[i + 1] = CsvLine(dataset[i])
        /\ writes = Len(fetched)

C5_Witness ==
    /\ pc = "sleep"
    /\ number = 2
    /\ writes = 2
    /\ detected = <<FullCard, BareCard>>
    /\ response = <<>>
    /\ Len(dataset) = 2
    /\ Len(files[self.dataset_name]) = 3

\* C6: a failing request or parse of page k ends the run: it leaves the
\* file and the dataset as they were, so that for k > 1 the file is the
\* dataset saved after page k-1, and the run requests no further page.
C6_FailureEndsRun ==
    /\ [](error \in {"fetch", "parse"} =>
            /\ pc = "crashed"
            /\ number > 1 => files[self.dataset_name] = to_csv(dataset))
    /\ [][error' \in {"fetch", "parse"} /\ error = "none" =>
            files' = files /\ dataset' = dataset]_vars
    /\ [][pc = "crashed" /\ instances' = instances =>
            fetched' = fetched /\ files' = files /\ dataset' = dataset]_vars

C6_Witness ==
    /\ pc = "crashed"
    /\ error = "fetch"
    /\ number = 2
    /\ fetched = <<1, 2>>
    /\ Len(dataset) = 2
    /\ Len(files[self.dataset_name]) = 3

IntegerAbove1(x) == x.type = "int" /\ x.val > 1

CsvName(x) ==
    /\ x.type = "str"
    /\ Len(x.val) >= 4
    /\ <<x.val[Len(x.val) - 3], x.val[Len(x.val) - 2],
         x.val[Len(x.val) - 1], x.val[Len(x.val)]>> = <<".", "c", "s", "v">>

\* C7: the constructor rejects its arguments exactly when number_of_pages
\* is not an integer above 1, or dataset_name not a string ending in
\* ".csv", or human_pause not an integer above 1; a rejected construction
\* requests no page and writes no file.
C7_ConfigFailsFast ==
    /\ [](pc # "none" =>
            /\ pc = "rejected" <=>
                  ~(/\ IntegerAbove1(args.number_of_pages)
                    /\ CsvName(args.dataset_name)
                    /\ IntegerAbove1(args.human_pause))
            /\ pc = "rejected" =>
                  fetched = <<>> /\ writes = 0 /\ error = "config")
    /\ [][pc' = "rejected" => files' = files /\ dataset' = dataset]_vars

C7_Witness ==
    /\ pc = "rejected"
    /\ args.number_of_pages = IntArg(1)
    /\ args.dataset_name = StrArg(<<"a", ".", "c", "s", "v">>)
    /\ args.human_pause = IntArg(2)

\* the blocks of a card whose text has the label
BlocksWith(card, label) ==
    {j \in 1..Len(card.rating_items) :
        \E n \in 1..Len(RatingText(card.rating_items[j])) :
            RatingText(card.rating_items[j])[n] = label}

\* the star note of the first block with the label, if any
NoteOf(card, label) ==
    IF BlocksWith(card, label) = {} THEN None
    ELSE LET m == CHOOSE j \in BlocksWith(card, label) :
                      \A n \in BlocksWith(card, label) : j <= n
         IN  card.rating_items[m].note

\* C8: press_rating is the star note of the (first) block labelled
\* "Presse" and spec_rating that of the (first) block labelled
\* "Spectateurs", in whatever order the blocks come; with no block of a
\* label its field is the missing marker, whatever the other rating is.
C8_RatingsByLabel ==
    \A i \in 1..Len(dataset) :
        /\ dataset[i][8] = NoteOf(detected[i], "Presse")
        /\ dataset[i][9] = NoteOf(detected[i], "Spectateurs")

C8_Witness ==
    \E i \in 1..Len(dataset) :
        /\ detected[i].rating_items =
              <<[label |-> <<"Spectateurs">>, note |-> << <<"4.0">> >>],
                [label |-> <<"Presse">>, note |-> << <<"3.5">> >>]>>
        /\ dataset[i][8] = Str(<<"3.5">>)
        /\ dataset[i][9] = Str(<<"4.0">>)

RECURSIVE CommaSeparated(_)
CommaSeparated(list) ==
    IF Len(list) = 0 THEN <<>>
    ELSE IF Len(list) = 1 THEN list[1]
    ELSE list[1] \o <<",", " ">> \o CommaSeparated(Tail(list))

\* C9: for an actor block with the entries e0, e1, ..., en the actors field
\* is e1, ..., en in that order, separated by ", ".
C9_ActorsDropFirst ==
    \A i \in 1..Len(dataset) :
        LET block == detected[i].meta_body_actor IN
        (block # <<>> /\ Len(block[1]) >= 1) =>
            dataset[i][7] =
                Str(CommaSeparated([n \in 1..(Len(block[1]) - 1) |->
                                        block[1][n + 1]]))

C9_Witness ==
    \E i \in 1..Len(dataset) :
        /\ detected[i].meta_body_actor =
              << << <<"A", "v", "e", "c">>, <<"B">>, <<"A">> >> >>
        /\ dataset[i][7] = Str(<<"B", ",", " ", "A">>)

\* C10: the dataset is empty before the first instance, a new instance
\* starts with the rows the earlier ones have added, and the file a later
\* instance writes begins with those rows.
C10_DatasetShared ==
    /\ instances = 0 => dataset = <<>>
    /\ IsPrefix(inherited, dataset)
    /\ pc \in {"sleep", "done"} =>
          /\ Len(files[self.dataset_name]) >= Len(inherited) + 1
          /\ \A i \in 1..Len(inherited) :
                files[self.dataset_name][i + 1] = CsvLine(inherited[i])

C10_Witness ==
    /\ instances = 2
    /\ pc = "sleep"
    /\ Len(inherited) = 2
    /\ Len(dataset) = 3
    /\ Len(files[self.dataset_name]) = 4

===========================================================================
